---- MODULE Spec2Model ----
(***************************************************************************)
(* Model of the isometric tile-map engine of age-of-towns                  *)
(* (src/src/engine/index.ts): the pointer handlers, the coordinate         *)
(* transformer, the render pass and the tileClicked dispatcher.            *)
(*                                                                         *)
(* A handler of the class is a pure operator on a record of the engine's   *)
(* fields (the record plays the part of `this`); an action runs one        *)
(* handler on the current fields and stores what it returns.               *)
(***************************************************************************)
EXTENDS Integers, Sequences, FiniteSets, TLC

VARIABLES
    mapOffsetX, mapOffsetY,        \* pan offset, pixels
    selectedTileX, selectedTileY,  \* tile of the last click, -1 -1 at start
    hoveredTileX, hoveredTileY,    \* tile under the primary pointer
    imageAssets,                   \* asset name -> state of its image
    windowResized,                 \* resize flag, set by the resize listener
    initialPointers,               \* press origin: Undefined or Some(list)
    pointers,                      \* current pointer list
    pointerDown,                   \* pressed flag
    map,                           \* grid of tile stacks (sequence of columns)
    events,                        \* listeners of tileClicked, in Set order
    canvas,                        \* [width, height] of the drawing surface
    body,                          \* [width, height] of document.body
    emitted,                       \* emit() calls made by the last step
    calls,                         \* listener invocations made by the last step
    frame,                         \* drawTile() calls of the frame just rendered
    painted,                       \* ctx.drawImage() calls of the frame just rendered
    resizes,                       \* surface resizes done by the last step
    scheduled,                     \* requestAnimationFrame(render) called by the last step
    resizeEvents,                  \* history: resize events since the last frame
                                   \* (pending), and those before it (served)
    gesture,                       \* history: the press in progress / just ended
    subTime,                       \* history: listener -> time of its subscription
    clock,                         \* history: number of on() calls so far
    lastOp,                        \* history: the on, off or render of the last step
    probe                          \* input and results of the transformer checks

vars == << mapOffsetX, mapOffsetY, selectedTileX, selectedTileY, hoveredTileX,
           hoveredTileY, imageAssets, windowResized, initialPointers, pointers,
           pointerDown, map, events, canvas, body, emitted, calls, frame, painted,
           resizes, scheduled, resizeEvents, gesture, subTime, clock, lastOp, probe >>

-----------------------------------------------------------------------------
(* Program constants *)

tileWidth == 132
tileHeight == 65

\* Math.ceil(n / 2) for n >= 0
CeilHalf(n) == (n + 1) \div 2

halfTileWidth == CeilHalf(tileWidth)
halfTileHeight == CeilHalf(tileHeight)

\* distance > 10 in handleTileClick
ClickDistance == 10

-----------------------------------------------------------------------------
(* Bounds of the model *)

MaxPan == 30        \* |mapOffsetX|, |mapOffsetY| stay within this
MaxResizes == 2     \* resize events counted between two frames
MaxTouches == 2     \* fingers in one touch list
MaxSubs == 3        \* on() calls in one behaviour
MapSize == 2        \* the grid is MapSize x MapSize
GeomRange == 6      \* tile indices -GeomRange..GeomRange in the transformer checks

\* Canvas-local positions of pointer events (pageX - offsetLeft, pageY -
\* offsetTop).  From the first: the second is at distance exactly 10, the third
\* at distance 30.  Every x is odd and every difference of two x is even, so a
\* picked point x - mapOffsetX is odd and never lies on a cell boundary (see
\* XYToTileCoords).
Positions == { [x |-> 101, y |-> 100], [x |-> 107, y |-> 108], [x |-> 131, y |-> 100] }

\* positions of touches: the first and the far one
TouchPositions == { [x |-> 101, y |-> 100], [x |-> 131, y |-> 100] }

Buttons == {0, 2}   \* MouseEvent.button: 0 primary, 2 secondary

Listeners == {"l1", "l2", "l3"}

-----------------------------------------------------------------------------
(* Values *)

Undefined == << >>
Some(v) == << v >>
IsSet(o) == o # Undefined
Get(o) == o[1]

Pointer(t, p) == [type |-> t, x |-> p.x, y |-> p.y]

\* MouseEvent of a mousedown or mouseup: canvas-local position and the button
\* that changed
MouseEvents == { [x |-> p.x, y |-> p.y, button |-> b] : p \in Positions, b \in Buttons }

\* MouseEvent of a mousemove: no button changed, and button is 0
MouseMoves == { [x |-> p.x, y |-> p.y, button |-> 0] : p \in Positions }

\* TouchEvent.targetTouches: a list of positions
TouchLists(ps, n) == UNION { [1..k -> ps] : k \in 0..n }

-----------------------------------------------------------------------------
(* Coordinate transformer *)

tileCoordsToXY(tx, ty) ==
    [x |-> (tx - ty) * halfTileWidth, y |-> (tx + ty) * halfTileHeight]

\* mutant: the inverse of tileCoordsToXY without the two 0.5 terms
XYToTileCoords_NoHalf(x, y) ==
    [tx |-> (x * halfTileHeight + y * halfTileWidth) \div (2 * halfTileWidth * halfTileHeight),
     ty |-> (y * halfTileWidth - x * halfTileHeight) \div (2 * halfTileWidth * halfTileHeight)]

\* the quotient rounded towards zero
TruncDiv(n, d) == IF n >= 0 THEN n \div d ELSE -((-n) \div d)

\* mutant: the quotients are truncated (Math.trunc) and not floored
XYToTileCoords_Trunc(x, y) ==
    [tx |-> TruncDiv(x * halfTileHeight + y * halfTileWidth - halfTileWidth * halfTileHeight,
                     2 * halfTileWidth * halfTileHeight),
     ty |-> TruncDiv(y * halfTileWidth - x * halfTileHeight + halfTileWidth * halfTileHeight,
                     2 * halfTileWidth * halfTileHeight)]

\* Math.floor((x / hw + y / hh) / 2 - 0.5) and Math.floor((y / hh - x / hw) / 2
\* + 0.5) are the floors of (x hh + y hw - hw hh) / (2 hw hh) and of
\* (y hw - x hh + hw hh) / (2 hw hh).  The doubles of the code give the same
\* floor when the quotient is not an integer (its distance to an integer is
\* then at least 1 / 132, far above the rounding error) and when x / hw and
\* y / hh are integers (every step is then exact).  Every argument of the model
\* is of one of these two kinds: tile origins and centres, and points with x
\* odd (the numerator is then odd and the denominator even).
XYToTileCoords(x, y) ==
    [tx |-> (x * halfTileHeight + y * halfTileWidth - halfTileWidth * halfTileHeight)
                \div (2 * halfTileWidth * halfTileHeight),
     ty |-> (y * halfTileWidth - x * halfTileHeight + halfTileWidth * halfTileHeight)
                \div (2 * halfTileWidth * halfTileHeight)]

\* a point at which a quotient above is an integer, but for the tile origins
\* and centres: the pointer events of the model never pick one
OnCellBoundary(x, y) ==
    \/ (x * halfTileHeight + y * halfTileWidth - halfTileWidth * halfTileHeight)
            % (2 * halfTileWidth * halfTileHeight) = 0
    \/ (y * halfTileWidth - x * halfTileHeight + halfTileWidth * halfTileHeight)
            % (2 * halfTileWidth * halfTileHeight) = 0

-----------------------------------------------------------------------------
(* Event dispatcher *)

InSeq(q, v) == \E i \in 1..Len(q) : q[i] = v

\* mutant: Array.prototype.push, which adds a present value once more
on_Push(s, listener) == [s EXCEPT !.events = Append(@, listener)]

\* Set.prototype.add: a new value goes last, a present one keeps its place
on(s, listener) ==
    IF InSeq(s.events, listener) THEN s
    ELSE [s EXCEPT !.events = Append(@, listener)]

\* mutant: splice(indexOf(listener), 1) on an array, which drops the last
\* listener when the one given is not there
off_SpliceIndexOf(s, listener) ==
    IF InSeq(s.events, listener)
    THEN [s EXCEPT !.events = SelectSeq(@, LAMBDA l : l # listener)]
    ELSE [s EXCEPT !.events = SubSeq(@, 1, Len(@) - 1)]

\* Set.prototype.delete: removes the value if present, never throws
off(s, listener) ==
    [s EXCEPT !.events = SelectSeq(@, LAMBDA l : l # listener)]

\* mutant: the listeners are called last subscribed first
emit_Reversed(s, tx, ty) ==
    [s EXCEPT !.emitted = Append(@, << tx, ty >>),
              !.calls = @ \o [i \in 1..Len(s.events) |->
                                << s.events[Len(s.events) + 1 - i], tx, ty >>]]

\* for (const listener of this.events[eventType]) listener.apply(this, args)
\* The listeners are opaque callbacks that do not call back into the engine.
emit(s, tx, ty) ==
    [s EXCEPT !.emitted = Append(@, << tx, ty >>),
              !.calls = @ \o [i \in 1..Len(s.events) |-> << s.events[i], tx, ty >>]]

-----------------------------------------------------------------------------
(* Pointer unifier *)

\* mutant: the pan does not test this.pointerDown, so a release pans too
handlePointers_PanOnRelease(s, ptrs) ==
    LET oldPointers == s.pointers
        s1 == [s EXCEPT !.pointers = ptrs]
        s2 == IF ~IsSet(s1.initialPointers) /\ s1.pointerDown
              THEN [s1 EXCEPT !.initialPointers = Some(s1.pointers)]
              ELSE s1
    IN  IF Len(s2.pointers) > 0 /\ Len(oldPointers) > 0
        THEN [s2 EXCEPT !.mapOffsetX = @ + s2.pointers[1].x - oldPointers[1].x,
                        !.mapOffsetY = @ + s2.pointers[1].y - oldPointers[1].y]
        ELSE s2

\* mutant: the pan follows the last pointer of the list, not the first
handlePointers_PanByLast(s, ptrs) ==
    LET oldPointers == s.pointers
        s1 == [s EXCEPT !.pointers = ptrs]
        s2 == IF ~IsSet(s1.initialPointers) /\ s1.pointerDown
              THEN [s1 EXCEPT !.initialPointers = Some(s1.pointers)]
              ELSE s1
    IN  IF Len(s2.pointers) > 0 /\ Len(oldPointers) > 0 /\ s2.pointerDown
        THEN [s2 EXCEPT !.mapOffsetX = @ + s2.pointers[Len(s2.pointers)].x
                                         - oldPointers[Len(oldPointers)].x,
                        !.mapOffsetY = @ + s2.pointers[Len(s2.pointers)].y
                                         - oldPointers[Len(oldPointers)].y]
        ELSE s2

\* mutant: the origin is recorded again by every event of the press
handlePointers_RecordAlways(s, ptrs) ==
    LET oldPointers == s.pointers
        s1 == [s EXCEPT !.pointers = ptrs]
        s2 == IF s1.pointerDown
              THEN [s1 EXCEPT !.initialPointers = Some(s1.pointers)]
              ELSE s1
    IN  IF Len(s2.pointers) > 0 /\ Len(oldPointers) > 0 /\ s2.pointerDown
        THEN [s2 EXCEPT !.mapOffsetX = @ + s2.pointers[1].x - oldPointers[1].x,
                        !.mapOffsetY = @ + s2.pointers[1].y - oldPointers[1].y]
        ELSE s2

\* mutant: the pan follows the pointer across the screen but not down it
handlePointers_PanX(s, ptrs) ==
    LET oldPointers == s.pointers
        s1 == [s EXCEPT !.pointers = ptrs]
        s2 == IF ~IsSet(s1.initialPointers) /\ s1.pointerDown
              THEN [s1 EXCEPT !.initialPointers = Some(s1.pointers)]
              ELSE s1
    IN  IF Len(s2.pointers) > 0 /\ Len(oldPointers) > 0 /\ s2.pointerDown
        THEN [s2 EXCEPT !.mapOffsetX = @ + s2.pointers[1].x - oldPointers[1].x]
        ELSE s2

handlePointers(s, ptrs) ==
    LET oldPointers == s.pointers
        s1 == [s EXCEPT !.pointers = ptrs]
        s2 == IF ~IsSet(s1.initialPointers) /\ s1.pointerDown
              THEN [s1 EXCEPT !.initialPointers = Some(s1.pointers)]
              ELSE s1
    IN  IF Len(s2.pointers) > 0 /\ Len(oldPointers) > 0 /\ s2.pointerDown
        THEN [s2 EXCEPT !.mapOffsetX = @ + s2.pointers[1].x - oldPointers[1].x,
                        !.mapOffsetY = @ + s2.pointers[1].y - oldPointers[1].y]
        ELSE s2

\* mutant: the threshold itself counts as a drag (>= for >)
TooFar_AtThreshold(a, b) ==
    (a.x - b.x) * (a.x - b.x) + (a.y - b.y) * (a.y - b.y) >= ClickDistance * ClickDistance

\* Math.sqrt(dx^2 + dy^2) > 10 on integers is dx^2 + dy^2 > 100
TooFar(a, b) ==
    (a.x - b.x) * (a.x - b.x) + (a.y - b.y) * (a.y - b.y) > ClickDistance * ClickDistance

\* mutant: with no origin recorded the event is taken for a click
handleTileClick_NoOriginTest(s) ==
    IF IsSet(s.initialPointers) /\ TooFar(s.pointers[1], Get(s.initialPointers)[1]) THEN s
    ELSE LET tileCoords == XYToTileCoords(s.pointers[1].x - s.mapOffsetX,
                                          s.pointers[1].y - s.mapOffsetY)
             s1 == [s EXCEPT !.selectedTileX = tileCoords.tx,
                             !.selectedTileY = tileCoords.ty]
         IN  emit(s1, s1.selectedTileX, s1.selectedTileY)

handleTileClick(s) ==
    IF ~IsSet(s.initialPointers) THEN s
    ELSE IF TooFar(s.pointers[1], Get(s.initialPointers)[1]) THEN s
    ELSE LET tileCoords == XYToTileCoords(s.pointers[1].x - s.mapOffsetX,
                                          s.pointers[1].y - s.mapOffsetY)
             s1 == [s EXCEPT !.selectedTileX = tileCoords.tx,
                             !.selectedTileY = tileCoords.ty]
         IN  emit(s1, s1.selectedTileX, s1.selectedTileY)

\* mutant: the pan offset is left out of the pick
updateHover_NoPan(s) ==
    IF Len(s.pointers) > 0
    THEN LET tileCoords == XYToTileCoords(s.pointers[1].x, s.pointers[1].y)
         IN  [s EXCEPT !.hoveredTileX = tileCoords.tx, !.hoveredTileY = tileCoords.ty]
    ELSE s

\* lines 159-166 and 188-195: the hovered tile follows the primary pointer
updateHover(s) ==
    IF Len(s.pointers) > 0
    THEN LET tileCoords == XYToTileCoords(s.pointers[1].x - s.mapOffsetX,
                                          s.pointers[1].y - s.mapOffsetY)
         IN  [s EXCEPT !.hoveredTileX = tileCoords.tx, !.hoveredTileY = tileCoords.ty]
    ELSE s

\* mutant: the release leaves the press origin in place
clearPointers_KeepOrigin(s) == [s EXCEPT !.pointers = << >>]

\* lines 173-174 and 202-203
clearPointers(s) == [s EXCEPT !.pointers = << >>, !.initialPointers = Undefined]

mouseXY(s, e) ==
    LET s1 == handlePointers(s, << Pointer("mouse", e) >>)
        s2 == updateHover(s1)
    IN  IF ~s2.pointerDown
        THEN clearPointers(IF Len(s2.pointers) > 0 /\ e.button = 0
                           THEN handleTileClick(s2) ELSE s2)
        ELSE s2

touchXY(s, e) ==
    LET s1 == handlePointers(s, [i \in 1..Len(e.targetTouches) |->
                                    Pointer("touch", e.targetTouches[i])])
        s2 == updateHover(s1)
    IN  IF ~s2.pointerDown
        THEN clearPointers(IF Len(s2.pointers) > 0 THEN handleTileClick(s2) ELSE s2)
        ELSE s2

mouseUp(s, e) == mouseXY([s EXCEPT !.pointerDown = FALSE], e)

mouseDown(s, e) == mouseXY([s EXCEPT !.pointerDown = TRUE], e)

touchDown(s, e) == touchXY([s EXCEPT !.pointerDown = TRUE], e)

touchUp(s, e) ==
    touchXY(IF Len(e.targetTouches) = 0 THEN [s EXCEPT !.pointerDown = FALSE] ELSE s, e)

-----------------------------------------------------------------------------
(* Asset registry and render pass *)

AssetNames == {"grass", "road", "selection", "selection_down"}

\* State of this.imageAssets[name]: "none" is a lookup miss (undefined),
\* "loading" has complete = false, "broken" is complete with naturalWidth = 0,
\* "ready" is complete with naturalWidth > 0.
ImageStates == {"none", "loading", "broken", "ready"}

registerImageAsset(s, name) == [s EXCEPT !.imageAssets[name] = "loading"]

\* drawTile(image, x, y): ctx.drawImage is reached only for a ready image.  An
\* entry of painted is one ctx.drawImage call, at the cell's anchor (the code
\* then shifts it by the image's own size).
\* mutant: drawImage is called whatever the state of the image
drawTile_Unchecked(s, image, x, y) ==
    [s EXCEPT !.painted = Append(@, [name |-> image.name,
                                     x |-> s.mapOffsetX + x,
                                     y |-> s.mapOffsetY + y])]

drawTile(s, image, x, y) ==
    IF image.state # "ready" THEN s
    ELSE [s EXCEPT !.painted = Append(@, [name |-> image.name,
                                          x |-> s.mapOffsetX + x,
                                          y |-> s.mapOffsetY + y])]

isXYVisible(s, x, y) ==
    /\ x + s.mapOffsetX <= s.canvas.width
    /\ x + tileWidth + s.mapOffsetX > 0
    /\ y + s.mapOffsetY <= s.canvas.height
    /\ y + tileHeight + s.mapOffsetY > 0

\* this.imageAssets[name]
Image(s, name) == [name |-> name, state |-> s.imageAssets[name]]

\* One call of drawTile from the render pass: the call is logged in frame with
\* the cell and the layer it is made for (layer -1 is the hover overlay).
Submit(s, name, x, y, layer, coords) ==
    LET s1 == [s EXCEPT !.frame = Append(@, [name |-> name, cell |-> << x, y >>,
                                             layer |-> layer,
                                             x |-> coords.x, y |-> coords.y])]
    IN  drawTile(s1, Image(s1, name), coords.x, coords.y)

\* mutant: the overlay follows the top layer of the stack, not the base layer
renderLayer_OverlayOnTop(s, x, y, i, coords) ==
    LET s1 == Submit(s, s.map[x + 1][y + 1][i + 1], x, y, i, coords)
    IN  IF i = Len(s.map[x + 1][y + 1]) - 1 /\ x = s1.hoveredTileX /\ y = s1.hoveredTileY
        THEN IF ~s1.pointerDown
             THEN Submit(s1, "selection", x, y, -1, coords)
             ELSE Submit(s1, "selection_down", x, y, -1, coords)
        ELSE s1

\* body of the loop over i, lines 261-281
renderLayer(s, x, y, i, coords) ==
    LET s1 == Submit(s, s.map[x + 1][y + 1][i + 1], x, y, i, coords)
    IN  IF i = 0 /\ x = s1.hoveredTileX /\ y = s1.hoveredTileY
        THEN IF ~s1.pointerDown
             THEN Submit(s1, "selection", x, y, -1, coords)
             ELSE Submit(s1, "selection_down", x, y, -1, coords)
        ELSE s1

RECURSIVE renderLayers_TopDown(_, _, _, _, _)
\* mutant: the loop runs from the top of the stack down to the base
renderLayers_TopDown(s, x, y, i, coords) ==
    IF i < Len(s.map[x + 1][y + 1])
    THEN renderLayers_TopDown(
             renderLayer(s, x, y, Len(s.map[x + 1][y + 1]) - 1 - i, coords),
             x, y, i + 1, coords)
    ELSE s

RECURSIVE renderLayers(_, _, _, _, _)
\* for (let i = 0; i < this.map[x][y].length; i++), from i on
renderLayers(s, x, y, i, coords) ==
    IF i < Len(s.map[x + 1][y + 1])
    THEN renderLayers(renderLayer(s, x, y, i, coords), x, y, i + 1, coords)
    ELSE s

\* body of the loop over y, lines 257-283
renderCell(s, x, y) ==
    LET coords == tileCoordsToXY(x, y)
    IN  IF isXYVisible(s, coords.x, coords.y)
        THEN renderLayers(s, x, y, 0, coords)
        ELSE s

RECURSIVE renderCells(_, _, _)
\* the two loops over x and y, from cell (x, y) on
renderCells(s, x, y) ==
    IF x >= Len(s.map) THEN s
    ELSE IF y >= Len(s.map[x + 1]) THEN renderCells(s, x + 1, 0)
    ELSE renderCells(renderCell(s, x, y), x, y + 1)

\* mutant: the flag is left set
applyResize_KeepFlag(s) ==
    IF s.windowResized
    THEN [s EXCEPT !.canvas = s.body, !.resizes = Append(@, s.body)]
    ELSE s

\* lines 247-251
applyResize(s) ==
    IF s.windowResized
    THEN [s EXCEPT !.canvas = s.body, !.windowResized = FALSE,
                   !.resizes = Append(@, s.body)]
    ELSE s

\* ctx.clearRect wipes the previous frame; requestAnimationFrame(this.render),
\* the last statement, makes the pass run again: Render has no guard.
render(s) ==
    LET s1 == renderCells([applyResize(s) EXCEPT !.frame = << >>, !.painted = << >>],
                          0, 0)
    IN  [s1 EXCEPT !.scheduled = TRUE]

-----------------------------------------------------------------------------
(* State *)

\* the engine's fields as a record; the logs of a step start empty
This ==
    [mapOffsetX |-> mapOffsetX, mapOffsetY |-> mapOffsetY,
     selectedTileX |-> selectedTileX, selectedTileY |-> selectedTileY,
     hoveredTileX |-> hoveredTileX, hoveredTileY |-> hoveredTileY,
     imageAssets |-> imageAssets, windowResized |-> windowResized,
     initialPointers |-> initialPointers, pointers |-> pointers,
     pointerDown |-> pointerDown, map |-> map, events |-> events,
     canvas |-> canvas, body |-> body,
     emitted |-> << >>, calls |-> << >>, frame |-> << >>, painted |-> << >>,
     resizes |-> << >>, scheduled |-> FALSE]

Store(s) ==
    /\ mapOffsetX' = s.mapOffsetX /\ mapOffsetY' = s.mapOffsetY
    /\ selectedTileX' = s.selectedTileX /\ selectedTileY' = s.selectedTileY
    /\ hoveredTileX' = s.hoveredTileX /\ hoveredTileY' = s.hoveredTileY
    /\ imageAssets' = s.imageAssets /\ windowResized' = s.windowResized
    /\ initialPointers' = s.initialPointers /\ pointers' = s.pointers
    /\ pointerDown' = s.pointerDown /\ map' = s.map /\ events' = s.events
    /\ canvas' = s.canvas /\ body' = s.body
    /\ emitted' = s.emitted /\ calls' = s.calls /\ frame' = s.frame
    /\ painted' = s.painted /\ resizes' = s.resizes /\ scheduled' = s.scheduled

Abs(n) == IF n < 0 THEN -n ELSE n

\* the pan offset is unbounded in the program; the model stops a drag at MaxPan
WithinPan(s) == Abs(s.mapOffsetX) <= MaxPan /\ Abs(s.mapOffsetY) <= MaxPan

NoPosition == [x |-> -1, y |-> -1]

\* History of the press in progress (phase "pressed") or ended by the last step
\* (phase "released"): how it began (kind, button), where (P), the pan offset
\* and the selected tile at that moment (ox, oy, sx, sy), the position of the
\* primary pointer in the last event before the release (M), the position and
\* kind and button of the release (R, upKind, upButton), and whether every
\* event of the press
\* was of the kind that began it (pure).
NoGesture ==
    [phase |-> "none", kind |-> "none", button |-> -1, upKind |-> "none", upButton |-> -1,
     P |-> NoPosition, M |-> NoPosition, R |-> NoPosition,
     ox |-> 0, oy |-> 0, sx |-> -1, sy |-> -1, pure |-> TRUE]

Pos(p) == [x |-> p.x, y |-> p.y]

BeginGesture(kind, button, p) ==
    [NoGesture EXCEPT !.phase = "pressed", !.kind = kind, !.button = button,
                      !.P = Pos(p), !.M = Pos(p),
                      !.ox = mapOffsetX, !.oy = mapOffsetY,
                      !.sx = selectedTileX, !.sy = selectedTileY]

\* a press event of `kind` at p
GestureDown(kind, button, p) ==
    IF gesture.phase = "pressed"
    THEN [gesture EXCEPT !.M = Pos(p), !.pure = @ /\ FALSE]
    ELSE BeginGesture(kind, button, p)

\* a move event of `kind` with primary pointer p; with nothing pressed it is
\* a hover (phase "hover"), recorded with the pan offset and the selected tile
\* it found
GestureMove(kind, p) ==
    IF gesture.phase = "pressed"
    THEN [gesture EXCEPT !.M = Pos(p), !.pure = @ /\ gesture.kind = kind]
    ELSE [NoGesture EXCEPT !.phase = "hover", !.kind = kind, !.M = Pos(p),
                           !.ox = mapOffsetX, !.oy = mapOffsetY,
                           !.sx = selectedTileX, !.sy = selectedTileY]

\* a release event of `kind` at r
GestureUp(kind, button, r) ==
    IF gesture.phase = "pressed"
    THEN [gesture EXCEPT !.phase = "released", !.R = Pos(r), !.upKind = kind,
                         !.upButton = button,
                         !.pure = @ /\ gesture.kind = kind]
    ELSE NoGesture

\* a step that is no pointer event
GestureKept == IF gesture.phase = "pressed" THEN gesture ELSE NoGesture

NoOp == [op |-> "none", listener |-> "none", before |-> << >>]

\* a step that is no call of on, off or render
\* resize events: `pending` counts those since the last frame; `served` is,
\* right after a frame, the number that came between it and the frame before
NoResizes == [pending |-> 0, served |-> 0]

ResizesKept == resizeEvents' = [resizeEvents EXCEPT !.served = 0]

Quiet == lastOp' = NoOp /\ ResizesKept /\ UNCHANGED << subTime, clock, probe >>

-----------------------------------------------------------------------------
(* Actions: one per listener installed by the constructor and per public
   operation *)

MouseDown(e) ==
    LET s == mouseDown(This, e)
    IN  /\ WithinPan(s)
        /\ Store(s)
        /\ gesture' = GestureDown("mouse", e.button, e)
        /\ Quiet

MouseMove(e) ==
    LET s == mouseXY(This, e)
    IN  /\ WithinPan(s)
        /\ Store(s)
        /\ gesture' = GestureMove("mouse", e)
        /\ Quiet

MouseUp(e) ==
    LET s == mouseUp(This, e)
    IN  /\ WithinPan(s)
        /\ Store(s)
        /\ gesture' = GestureUp("mouse", e.button, e)
        /\ Quiet

\* touchstart and touchmove reach the canvas with at least one touch on it
TouchStart(e) ==
    LET s == touchDown(This, e)
    IN  /\ Len(e.targetTouches) > 0
        /\ WithinPan(s)
        /\ Store(s)
        /\ gesture' = GestureDown("touch", 0, e.targetTouches[1])
        /\ Quiet

TouchMove(e) ==
    LET s == touchXY(This, e)
    IN  /\ Len(e.targetTouches) > 0
        /\ WithinPan(s)
        /\ Store(s)
        /\ gesture' = GestureMove("touch", e.targetTouches[1])
        /\ Quiet

\* touchend and touchcancel: targetTouches holds the touches that remain.  The
\* finger that left is where the primary pointer last was.
TouchEnd(e) ==
    LET s == touchUp(This, e)
    IN  /\ Len(e.targetTouches) < MaxTouches
        /\ WithinPan(s)
        /\ Store(s)
        /\ gesture' = IF Len(e.targetTouches) = 0
                      THEN GestureUp("touch", 0, gesture.M)
                      ELSE GestureMove("touch", e.targetTouches[1])
        /\ Quiet

On(listener) ==
    /\ clock < MaxSubs
    /\ Store(on(This, listener))
    /\ clock' = clock + 1
    /\ subTime' = IF subTime[listener] = 0
                  THEN [subTime EXCEPT ![listener] = clock + 1] ELSE subTime
    /\ gesture' = GestureKept
    /\ lastOp' = [op |-> "on", listener |-> listener, before |-> events]
    /\ ResizesKept
    /\ UNCHANGED probe

Off(listener) ==
    /\ Store(off(This, listener))
    /\ subTime' = [subTime EXCEPT ![listener] = 0]
    /\ gesture' = GestureKept
    /\ lastOp' = [op |-> "off", listener |-> listener, before |-> events]
    /\ ResizesKept
    /\ UNCHANGED << clock, probe >>

\* the resize listener of the window (lines 54-56), with the new size of
\* document.body that the resize brings; the model counts at most MaxResizes
\* resize events between two frames
WindowResize(w, h) ==
    /\ resizeEvents.pending < MaxResizes
    /\ Store([This EXCEPT !.body = [width |-> w, height |-> h], !.windowResized = TRUE])
    /\ resizeEvents' = [pending |-> resizeEvents.pending + 1, served |-> 0]
    /\ gesture' = GestureKept
    /\ lastOp' = NoOp
    /\ UNCHANGED << subTime, clock, probe >>

Render ==
    /\ Store(render(This))
    /\ gesture' = GestureKept
    /\ lastOp' = [NoOp EXCEPT !.op = "render"]
    /\ resizeEvents' = [pending |-> 0, served |-> resizeEvents.pending]
    /\ UNCHANGED << subTime, clock, probe >>

\* engine.map = m
SetMap(m) ==
    /\ Store([This EXCEPT !.map = m])
    /\ gesture' = GestureKept
    /\ Quiet

RegisterImageAsset(name) ==
    /\ Store(registerImageAsset(This, name))
    /\ gesture' = GestureKept
    /\ Quiet

\* the browser finishes loading an image: decoded, or broken
ImageLoaded(name, state) ==
    /\ imageAssets[name] = "loading"
    /\ Store([This EXCEPT !.imageAssets[name] = state])
    /\ gesture' = GestureKept
    /\ Quiet

-----------------------------------------------------------------------------
(* Specifications *)

\* document.body.clientWidth and clientHeight when the engine is built
StartSize == [width |-> 200, height |-> 150]

NoProbe == [stage |-> "none", tx |-> 0, ty |-> 0, x |-> 0, y |-> 0, rx |-> 0, ry |-> 0]

\* the state the constructor leaves (lines 20-47 and 50-51)
InitEngine ==
    /\ mapOffsetX = 0 /\ mapOffsetY = 0
    /\ selectedTileX = -1 /\ selectedTileY = -1
    /\ hoveredTileX = -1 /\ hoveredTileY = -1
    /\ imageAssets = [n \in AssetNames |-> "none"]
    /\ windowResized = FALSE
    /\ initialPointers = Undefined
    /\ pointers = << >>
    /\ pointerDown = FALSE
    /\ map = << >>
    /\ events = << >>
    /\ body = StartSize
    /\ canvas = body
    /\ emitted = << >> /\ calls = << >> /\ frame = << >> /\ painted = << >>
    /\ resizes = << >>
    /\ scheduled = FALSE
    /\ resizeEvents = NoResizes
    /\ gesture = NoGesture
    /\ subTime = [l \in Listeners |-> 0]
    /\ clock = 0
    /\ lastOp = NoOp

Init == InitEngine /\ probe = NoProbe

TouchEvents == { [targetTouches |-> l] : l \in TouchLists(TouchPositions, MaxTouches) }

\* the pointer unifier: every mouse and touch event, in any order
Next ==
    \/ \E e \in MouseEvents : MouseDown(e)
    \/ \E e \in MouseMoves : MouseMove(e)
    \/ \E e \in MouseEvents : MouseUp(e)
    \/ \E e \in TouchEvents : TouchStart(e)
    \/ \E e \in TouchEvents : TouchMove(e)
    \/ \E e \in TouchEvents : TouchEnd(e)

Spec == Init /\ [][Next]_vars

\* the dispatcher: on and off in any order, around clicks of the primary button
ClickEvents == { [x |-> 101, y |-> 100, button |-> 0] }

NextEvents ==
    \/ \E l \in Listeners : On(l)
    \/ \E l \in Listeners : Off(l)
    \/ \E e \in ClickEvents : MouseDown(e)
    \/ \E e \in ClickEvents : MouseUp(e)

SpecEvents == Init /\ [][NextEvents]_vars

\* a grid of MapSize columns of MapSize stacks
Grid(stack(_, _)) == [x \in 1..MapSize |-> [y \in 1..MapSize |-> stack(x - 1, y - 1)]]

GrassMap == Grid(LAMBDA x, y : << "grass" >>)

RoadMap == Grid(LAMBDA x, y : IF x = y THEN << "grass", "road" >> ELSE << "grass" >>)

Maps == { GrassMap, RoadMap }

SmallSize == [width |-> 60, height |-> 40]

Sizes == { StartSize, SmallSize }

\* the render loop, with the caller setting the map, the window resizing and
\* the primary button dragging and clicking
NextRender ==
    \/ Render
    \/ \E m \in Maps : SetMap(m)
    \/ \E z \in Sizes : WindowResize(z.width, z.height)
    \/ \E e \in MouseMoves : MouseDown(e)
    \/ \E e \in MouseMoves : MouseMove(e)
    \/ \E e \in MouseMoves : MouseUp(e)

SpecRender == Init /\ [][NextRender]_vars

\* the states an image comes to when the browser is done with it
LoadedStates == { "ready", "broken" }

\* the render loop while the assets are registered and load, with the map set
\* and the pointer hovering, pressing and releasing over one tile
NextAssets ==
    \/ Render
    \/ \E m \in Maps : SetMap(m)
    \/ \E n \in AssetNames : RegisterImageAsset(n)
    \/ \E n \in AssetNames : \E st \in LoadedStates : ImageLoaded(n, st)
    \/ \E e \in ClickEvents : MouseDown(e)
    \/ \E e \in ClickEvents : MouseMove(e)
    \/ \E e \in ClickEvents : MouseUp(e)

SpecAssets == Init /\ [][NextAssets]_vars


\* the coordinate transformer on its own: a tile is projected, and the
\* projected origin, or the centre of the tile's box, is picked
GeomIndices == (-GeomRange)..GeomRange

InitGeom ==
    /\ InitEngine
    /\ probe \in { [NoProbe EXCEPT !.stage = "input", !.tx = tx, !.ty = ty] :
                     tx \in GeomIndices, ty \in GeomIndices }

EngineUnchanged ==
    UNCHANGED << mapOffsetX, mapOffsetY, selectedTileX, selectedTileY, hoveredTileX,
                 hoveredTileY, imageAssets, windowResized, initialPointers, pointers,
                 pointerDown, map, events, canvas, body, emitted, calls, frame,
                 painted, resizes, scheduled, resizeEvents, gesture, subTime, clock,
                 lastOp >>

Project ==
    /\ probe.stage = "input"
    /\ LET c == tileCoordsToXY(probe.tx, probe.ty)
       IN  probe' = [probe EXCEPT !.stage = "screen", !.x = c.x, !.y = c.y]
    /\ EngineUnchanged

PickOrigin ==
    /\ probe.stage = "screen"
    /\ LET c == XYToTileCoords(probe.x, probe.y)
       IN  probe' = [probe EXCEPT !.stage = "origin", !.rx = c.tx, !.ry = c.ty]
    /\ EngineUnchanged

PickCentre ==
    /\ probe.stage = "screen"
    /\ LET c == XYToTileCoords(probe.x + halfTileWidth, probe.y + halfTileHeight)
       IN  probe' = [probe EXCEPT !.stage = "centre", !.rx = c.tx, !.ry = c.ty]
    /\ EngineUnchanged

NextGeom == Project \/ PickOrigin \/ PickCentre

SpecGeom == InitGeom /\ [][NextGeom]_vars


-----------------------------------------------------------------------------
(* Properties *)

\* squared Euclidean distance of two positions
Dist2(a, b) == (a.x - b.x) * (a.x - b.x) + (a.y - b.y) * (a.y - b.y)

Near(a, b) == Dist2(a, b) <= 100

\* the pointer events of the model never pick a point on a cell boundary, where
\* the doubles of the code and the exact quotient could differ
OffBoundary ==
    \A p \in Positions : ~OnCellBoundary(p.x - mapOffsetX, p.y - mapOffsetY)

\* the last step released a press made of mouse events alone (mouse-down from
\* idle, mouse-moves, mouse-up)
MouseReleased ==
    gesture.phase = "released" /\ gesture.kind = "mouse" /\ gesture.pure

\* the last step released a press made of touch events alone, leaving no touch
TouchReleased ==
    gesture.phase = "released" /\ gesture.kind = "touch" /\ gesture.pure

TileUnder(p) == XYToTileCoords(p.x - mapOffsetX, p.y - mapOffsetY)

\* C1: a left-button mouse-down at P, any mouse-moves and a mouse-up at R with
\* |R - P| <= 10 emit exactly one tileClicked during the mouse-up, for the tile
\* screenToTile(R - pan offset) with the pan offset current at the release.
C1_ClickEmitsOnce ==
    (MouseReleased /\ gesture.button = 0 /\ gesture.upButton = 0
                   /\ Near(gesture.R, gesture.P))
        => emitted = << << TileUnder(gesture.R).tx, TileUnder(gesture.R).ty >> >>

\* a click released away from where it was pressed, after the map was panned
C1_Witness ==
    /\ MouseReleased /\ gesture.button = 0 /\ gesture.upButton = 0
    /\ gesture.R # gesture.P /\ Near(gesture.R, gesture.P)
    /\ mapOffsetX # 0
    /\ Len(emitted) = 1

\* C2 as stated: a press at P released at R with |R - P| > 10 emits nothing and
\* leaves the pan offset at its value before the press plus R - P.
C2_DragPansByDisplacement ==
    ((MouseReleased \/ TouchReleased) /\ ~Near(gesture.R, gesture.P))
        => /\ emitted = << >>
           /\ mapOffsetX = gesture.ox + (gesture.R.x - gesture.P.x)
           /\ mapOffsetY = gesture.oy + (gesture.R.y - gesture.P.y)

\* C2 amended: a press at P released at R with |R - P| > 10 emits nothing and
\* leaves the pan offset at its value before the press plus M - P, M being the
\* position of the last event before the release (P when no move came): the
\* release itself does not pan.
C2_DragPansByMoves ==
    ((MouseReleased \/ TouchReleased) /\ ~Near(gesture.R, gesture.P))
        => /\ emitted = << >>
           /\ mapOffsetX = gesture.ox + (gesture.M.x - gesture.P.x)
           /\ mapOffsetY = gesture.oy + (gesture.M.y - gesture.P.y)

\* a drag released away from the last move: the pan stops at the last move
C2_Witness ==
    /\ MouseReleased /\ ~Near(gesture.R, gesture.P)
    /\ gesture.M # gesture.P /\ gesture.M # gesture.R
    /\ mapOffsetX = gesture.ox + (gesture.M.x - gesture.P.x)
    /\ mapOffsetX # gesture.ox + (gesture.R.x - gesture.P.x)

\* C3: a touch press released with no touch left emits one tileClicked for the
\* tile under the release point when that point is within 10 pixels of the
\* press, and none when it is farther.
C3_TouchTapEmits ==
    TouchReleased =>
        IF Near(gesture.R, gesture.P)
        THEN emitted = << << TileUnder(gesture.R).tx, TileUnder(gesture.R).ty >> >>
        ELSE emitted = << >>

\* C4 as stated: picking the projected origin of a tile gives the tile back.
C4_RoundTrip ==
    probe.stage = "origin" => probe.rx = probe.tx /\ probe.ry = probe.ty

\* C4 amended: picking the projected origin of tile (tx, ty) gives (tx - 1, ty),
\* the tile whose box is centred there; tileToScreen(1, 0) = (66, 33) and
\* screenToTile(66, 33) = (0, 0).
C4_RoundTripShifted ==
    /\ probe.stage = "origin" => probe.rx = probe.tx - 1 /\ probe.ry = probe.ty
    /\ (probe.stage = "screen" /\ probe.tx = 1 /\ probe.ty = 0)
           => probe.x = 66 /\ probe.y = 33
    /\ (probe.stage = "origin" /\ probe.x = 66 /\ probe.y = 33)
           => probe.rx = 0 /\ probe.ry = 0

\* the origin of a tile of negative indices picked
C4_Witness ==
    /\ probe.stage = "origin" /\ probe.tx = -2 /\ probe.ty = 3
    /\ probe.x = -5 * halfTileWidth /\ probe.y = halfTileHeight
    /\ probe.rx = -3 /\ probe.ry = 3


\* the box of cell c, drawn at its projected origin plus the pan offset,
\* shares at least one pixel with the surface [0, width) x [0, height)
Overlaps(c) ==
    LET o == tileCoordsToXY(c[1], c[2])
    IN  /\ o.x + mapOffsetX < canvas.width /\ o.x + mapOffsetX + tileWidth > 0
        /\ o.y + mapOffsetY < canvas.height /\ o.y + mapOffsetY + tileHeight > 0

Cells == { << x - 1, y - 1 >> : x \in 1..Len(map), y \in 1..MapSize }

Rendered == lastOp.op = "render"

Submitted(c) == \E i \in 1..Len(frame) : frame[i].cell = c

\* C5: in a frame, a tile whose box lies entirely outside the surface is never
\* submitted to drawTile, and a tile whose box overlaps the surface by at least
\* one pixel always is.
C5_Culling ==
    /\ \A i \in 1..Len(frame) : Overlaps(frame[i].cell)
    /\ Rendered => \A c \in Cells : Overlaps(c) => Submitted(c)

\* C6: a mouse-down, mouse-moves and a mouse-up made with a button other than
\* the primary one leave the pan offset and the selected tile as they were and
\* emit no tileClicked.
C6_OtherButtonsOnlyHover ==
    (/\ gesture.phase \in {"pressed", "released"}
     /\ gesture.kind = "mouse" /\ gesture.pure
     /\ gesture.button # 0 /\ gesture.upButton # 0)
        => /\ mapOffsetX = gesture.ox /\ mapOffsetY = gesture.oy
           /\ selectedTileX = gesture.sx /\ selectedTileY = gesture.sy
           /\ emitted = << >>

Subscribed == { l \in Listeners : subTime[l] > 0 }

\* C7: an emission of tileClicked calls every listener subscribed at that
\* moment exactly once, in the same step, in the order of their subscription,
\* with the clicked tile; with no subscriber it calls nothing.
C7_EmitInSubscriptionOrder ==
    /\ emitted = << >> => calls = << >>
    /\ emitted # << >> =>
        /\ Len(emitted) = 1
        /\ emitted[1] = << selectedTileX, selectedTileY >>
        /\ Len(calls) = Cardinality(Subscribed)
        /\ { calls[i][1] : i \in 1..Len(calls) } = Subscribed
        /\ \A i \in 1..Len(calls) :
               /\ calls[i][2] = emitted[1][1] /\ calls[i][3] = emitted[1][2]
               /\ \A j \in 1..Len(calls) :
                      i < j => subTime[calls[i][1]] < subTime[calls[j][1]]

\* a click delivered to three listeners that were not subscribed in the order
\* of their names
C7_Witness ==
    /\ Len(calls) = 3
    /\ calls[1][1] = "l3" /\ calls[2][1] = "l1" /\ calls[3][1] = "l2"

Range(q) == { q[i] : i \in 1..Len(q) }

\* C8: off with a listener that is not subscribed leaves the listeners and
\* their order as they were; off with a subscribed listener removes that
\* listener and no other.
C8_OffIsLocal ==
    lastOp.op = "off" =>
        IF lastOp.listener \in Range(lastOp.before)
        THEN /\ Range(events) = Range(lastOp.before) \ {lastOp.listener}
             /\ Len(events) = Len(lastOp.before) - 1
             /\ \A i, j \in 1..Len(events) : \A a, b \in 1..Len(lastOp.before) :
                    (events[i] = lastOp.before[a] /\ events[j] = lastOp.before[b] /\ i < j)
                        => a < b
        ELSE events = lastOp.before

\* off called for a listener already removed, with two others subscribed
C8_Witness ==
    /\ lastOp.op = "off" /\ lastOp.listener = "l1" /\ subTime["l1"] = 0
    /\ clock = 3
    /\ lastOp.before = << "l3", "l2" >>
    /\ events = << "l3", "l2" >>

Hovered == << hoveredTileX, hoveredTileY >>

\* C9: in a frame the hover overlay is drawn only for the cell that is the
\* hovered tile, right after that cell's layer 0 and before any of its layers
\* >= 1; it is "selection" when the pointer is not pressed and "selection_down"
\* when it is; with the hovered tile at (-1, -1) no overlay is drawn.
C9_OverlayPlacement ==
    /\ \A i \in 1..Len(frame) : frame[i].layer = -1 =>
           /\ frame[i].cell = Hovered
           /\ i > 1 /\ frame[i - 1].cell = Hovered /\ frame[i - 1].layer = 0
           /\ \A j \in 1..(i - 1) : frame[j].cell = Hovered => frame[j].layer = 0
           /\ frame[i].name = IF pointerDown THEN "selection_down" ELSE "selection"
    /\ \A i \in 1..Len(frame) : (frame[i].layer = 0 /\ frame[i].cell = Hovered) =>
           i < Len(frame) /\ frame[i + 1].layer = -1 /\ frame[i + 1].cell = Hovered
    /\ Hovered = << -1, -1 >> => \A i \in 1..Len(frame) : frame[i].layer # -1

\* a frame with the pressed overlay between the two layers of the hovered cell
C9_Witness ==
    \E i \in 1..Len(frame) :
        /\ frame[i].layer = -1 /\ frame[i].name = "selection_down"
        /\ i < Len(frame) /\ frame[i + 1].cell = Hovered /\ frame[i + 1].layer = 1
        /\ frame[i - 1].name = "grass" /\ frame[i + 1].name = "road"

\* C10: in a frame the layers of every visible cell are drawn in stack order,
\* index 0 first and each later layer after all earlier ones.
C10_LayerOrder ==
    /\ \A i \in 1..Len(frame) : frame[i].layer >= 0 =>
           LET c == frame[i].cell
               stack == map[c[1] + 1][c[2] + 1]
           IN  /\ frame[i].layer < Len(stack)
               /\ frame[i].name = stack[frame[i].layer + 1]
               /\ \A k \in 0..(Len(stack) - 1) :
                      \E j \in 1..Len(frame) : frame[j].cell = c /\ frame[j].layer = k
               /\ \A j \in 1..Len(frame) :
                      (frame[j].cell = c /\ frame[j].layer >= 0 /\ i < j)
                          => frame[i].layer < frame[j].layer
    /\ Rendered => \A c \in Cells : Overlaps(c) => Submitted(c)

\* a frame in which a cell with the stack grass, road is drawn
C10_Witness ==
    \E i, j \in 1..Len(frame) :
        /\ i < j /\ frame[i].cell = frame[j].cell
        /\ frame[i].name = "grass" /\ frame[i].layer = 0
        /\ frame[j].name = "road" /\ frame[j].layer = 1


\* the drawImage call that a drawTile call f of the frame makes
Drawn(f) == [name |-> f.name, x |-> mapOffsetX + f.x, y |-> mapOffsetY + f.y]

IsReady(name) == imageAssets[name] = "ready"

\* the drawTile calls of the frame made with an image that can be drawn
ReadyCalls == SelectSeq(frame, LAMBDA f : IsReady(f.name))

\* C11: a drawTile call for an asset that is unregistered, still loading or of
\* zero natural width draws nothing and raises nothing: the frame goes on, so
\* that the drawImage calls of a frame are exactly its drawTile calls with a
\* ready image, in order, every ready layer of every visible cell is drawn,
\* and the loop runs again.
C11_NotReadyIsSkipped ==
    Rendered =>
        /\ painted = [i \in 1..Len(ReadyCalls) |-> Drawn(ReadyCalls[i])]
        /\ \A c \in Cells : Overlaps(c) =>
               LET stack == map[c[1] + 1][c[2] + 1]
                   o == tileCoordsToXY(c[1], c[2])
               IN  \A k \in 1..Len(stack) : IsReady(stack[k]) =>
                       \E i \in 1..Len(painted) :
                           painted[i] = [name |-> stack[k],
                                         x |-> mapOffsetX + o.x,
                                         y |-> mapOffsetY + o.y]
        /\ scheduled

\* a frame that skips a broken image and then the unregistered pressed overlay,
\* and draws a ready image after them
C11_Witness ==
    /\ Rendered
    /\ \E i, j, k \in 1..Len(frame) :
           /\ i < j /\ j < k
           /\ imageAssets[frame[i].name] = "broken"
           /\ frame[j].name = "selection_down" /\ imageAssets[frame[j].name] = "none"
           /\ IsReady(frame[k].name)
    /\ painted # << >> /\ Len(painted) < Len(frame)


\* C16: resize events are coalesced.  A frame that follows one or more resize
\* events resizes the surface once, to the size the container has at that
\* frame; a frame that follows none does not resize; the flag is false after
\* every frame, and nothing but a frame resizes the surface.
C16_ResizeCoalesced ==
    /\ Rendered =>
           /\ ~windowResized
           /\ IF resizeEvents.served >= 1
              THEN resizes = << body >> /\ canvas = body
              ELSE resizes = << >>
    /\ ~Rendered => resizes = << >>

\* a frame after two resize events, the last of them to the small size
C16_Witness ==
    /\ Rendered /\ resizeEvents.served = 2
    /\ body = SmallSize /\ canvas = SmallSize /\ resizes = << SmallSize >>


\* C12: after every handler, when the pressed flag is false the pointer list
\* is empty and initialPointers is unset; every release (mouse-up, touch-end
\* leaving no touch) leaves both cleared, click or drag.
C12_IdleHasNoPointers ==
    /\ ~pointerDown => pointers = << >> /\ initialPointers = Undefined
    /\ gesture.phase = "released" =>
           ~pointerDown /\ pointers = << >> /\ initialPointers = Undefined

\* a release classified as a drag, after the map was panned
C12_Witness ==
    /\ gesture.phase = "released" /\ ~Near(gesture.R, gesture.P)
    /\ mapOffsetX # gesture.ox
    /\ emitted = << >>
    /\ ~pointerDown /\ pointers = << >> /\ initialPointers = Undefined


\* C13: a mouse-move with nothing pressed sets the hovered tile to
\* screenToTile(pointer - pan offset) and changes nothing else: pan offset,
\* selected tile, pressed flag and initialPointers stay as they were and no
\* tileClicked is emitted.
C13_IdleMoveOnlyHovers ==
    (gesture.phase = "hover" /\ gesture.kind = "mouse") =>
        /\ Hovered = << XYToTileCoords(gesture.M.x - gesture.ox, gesture.M.y - gesture.oy).tx,
                        XYToTileCoords(gesture.M.x - gesture.ox, gesture.M.y - gesture.oy).ty >>
        /\ mapOffsetX = gesture.ox /\ mapOffsetY = gesture.oy
        /\ selectedTileX = gesture.sx /\ selectedTileY = gesture.sy
        /\ ~pointerDown /\ initialPointers = Undefined
        /\ emitted = << >>

\* a hover over a tile other than the selected one, on a panned map
C13_Witness ==
    /\ gesture.phase = "hover" /\ gesture.kind = "mouse"
    /\ mapOffsetX # 0 /\ selectedTileX # -1
    /\ Hovered # << selectedTileX, selectedTileY >>
    /\ Hovered # << XYToTileCoords(gesture.M.x, gesture.M.y).tx,
                    XYToTileCoords(gesture.M.x, gesture.M.y).ty >>


\* a step that handles a touch event whose first touch is where the primary
\* pointer was: a handler leaves a list of touch pointers only when it is
\* touchDown, touchXY or touchUp, and the list is then the event's list
SamePrimaryTouchStep ==
    /\ Len(pointers) > 0 /\ Len(pointers') > 0
    /\ pointers'[1].type = "touch"
    /\ Pos(pointers'[1]) = Pos(pointers[1])

\* C14: only pointer index 0 drives the view.  A touch event whose first touch
\* is where the primary pointer was (whatever the other touches do) leaves the
\* pan offset and the hovered tile as they were; and the click decision of a
\* release reads index 0 alone: with P the first entry of initialPointers, a
\* release clicks exactly when its event has a first pointer R, made with the
\* primary button, within 10 pixels of P, and then clicks the tile under R.
C14_PrimaryPointerOnly ==
    /\ [][SamePrimaryTouchStep =>
               /\ mapOffsetX' = mapOffsetX /\ mapOffsetY' = mapOffsetY
               /\ hoveredTileX' = hoveredTileX /\ hoveredTileY' = hoveredTileY]_vars
    /\ [](gesture.phase = "pressed" =>
               /\ IsSet(initialPointers)
               /\ Pos(Get(initialPointers)[1]) = gesture.P)
    /\ [](gesture.phase = "released" =>
               emitted = IF /\ gesture.upKind = "mouse" /\ gesture.upButton = 0
                            /\ Near(gesture.R, gesture.P)
                         THEN << << TileUnder(gesture.R).tx, TileUnder(gesture.R).ty >> >>
                         ELSE << >>)

\* two touches pressed together, then the second one moved while the first
\* stayed: the pan offset is what it was at the press
C14_Witness ==
    /\ pointerDown /\ gesture.kind = "touch" /\ gesture.pure
    /\ Len(pointers) = 2 /\ Len(Get(initialPointers)) = 2
    /\ pointers[1] = Get(initialPointers)[1]
    /\ pointers[2] # Get(initialPointers)[2]
    /\ gesture.M = gesture.P
    /\ mapOffsetX = gesture.ox /\ mapOffsetY = gesture.oy


\* C15: the press origin is recorded once per press.  The event that begins a
\* press sets initialPointers to its own pointer list; no event that leaves
\* the press on (a move, one more touch-start or mouse-down, a touch-end with
\* touches remaining) changes it; it is set for as long as the press lasts.
C15_OriginRecordedOnce ==
    /\ [][(~pointerDown /\ pointerDown') => initialPointers' = Some(pointers')]_vars
    /\ [][(pointerDown /\ pointerDown') => initialPointers' = initialPointers]_vars
    /\ [](pointerDown => IsSet(initialPointers) /\ Len(Get(initialPointers)) > 0)

\* a press begun by one touch, now with two touches and the first one moved:
\* the origin is still the one touch of the press event
C15_Witness ==
    /\ pointerDown /\ gesture.kind = "touch"
    /\ Len(Get(initialPointers)) = 1 /\ Len(pointers) = 2
    /\ Pos(pointers[1]) # Pos(Get(initialPointers)[1])
    /\ Pos(Get(initialPointers)[1]) = gesture.P


\* the tile picked at position p with the pan offset (ox, oy)
TileAt(p, ox, oy) ==
    << XYToTileCoords(p.x - ox, p.y - oy).tx, XYToTileCoords(p.x - ox, p.y - oy).ty >>

\* C17: throughout a press (every event of one carries a pointer), after every
\* handler the pan offset has moved from its value at the press by exactly
\* pointers[0] - initialPointers[0]; pointers[0] minus the pan offset is then
\* constant, and the hovered tile stays the tile picked at the press.
C17_PanTracksPrimary ==
    pointerDown =>
        /\ Len(pointers) > 0 /\ IsSet(initialPointers)
        /\ mapOffsetX - gesture.ox = pointers[1].x - Get(initialPointers)[1].x
        /\ mapOffsetY - gesture.oy = pointers[1].y - Get(initialPointers)[1].y
        /\ Hovered = TileAt(Get(initialPointers)[1], gesture.ox, gesture.oy)
        /\ Hovered = TileAt(pointers[1], mapOffsetX, mapOffsetY)

\* a drag across and down the screen, on a map that was panned before it,
\* far enough for the pointer to be over another tile of the screen
C17_Witness ==
    /\ pointerDown /\ gesture.ox # 0
    /\ mapOffsetX # gesture.ox /\ mapOffsetY # gesture.oy
    /\ pointers[1].x # Get(initialPointers)[1].x
    /\ TileAt(pointers[1], gesture.ox, gesture.oy) # Hovered


\* C18: tileClicked is emitted only by a handler that ends a press.  A step
\* that emits is the release of a press and emits once; an event that finds
\* no press origin recorded emits nothing; the selected tile changes only in
\* a step that emits, and to the emitted indices.
C18_EmitOnlyAtRelease ==
    /\ [](emitted # << >> =>
               /\ gesture.phase = "released"
               /\ Len(emitted) = 1
               /\ emitted[1] = << selectedTileX, selectedTileY >>)
    /\ [][~IsSet(initialPointers) => emitted' = << >>]_vars
    /\ [][(selectedTileX' # selectedTileX \/ selectedTileY' # selectedTileY) =>
               /\ Len(emitted') = 1
               /\ emitted'[1] = << selectedTileX', selectedTileY' >>]_vars

\* a click that moves the selection from one tile to another: the press began
\* with a tile selected and ended with another one selected
C18_Witness ==
    /\ gesture.phase = "released" /\ Len(emitted) = 1
    /\ gesture.sx # -1
    /\ << gesture.sx, gesture.sy >> # << selectedTileX, selectedTileY >>
    /\ emitted[1] = << selectedTileX, selectedTileY >>


\* C19: for tile indices (tx, ty) of the range and (x, y) = tileToScreen(tx,
\* ty), screenToTile(x + 66, y + 33) = (tx, ty): the centre of a tile's box
\* picks the tile.
C19_CentrePicksTile ==
    /\ halfTileWidth = 66 /\ halfTileHeight = 33
    /\ probe.stage = "centre" =>
           /\ probe.x = (probe.tx - probe.ty) * 66 /\ probe.y = (probe.tx + probe.ty) * 33
           /\ probe.rx = probe.tx /\ probe.ry = probe.ty

\* the centre of a tile of negative indices picked
C19_Witness ==
    /\ probe.stage = "centre" /\ probe.tx = -3 /\ probe.ty = -2
    /\ probe.x = -66 /\ probe.y = -165
    /\ probe.rx = -3 /\ probe.ry = -2


\* the number of calls of listener l made by the last step
CallsOf(l) == Cardinality({ i \in 1..Len(calls) : calls[i][1] = l })

\* C20: subscriptions are a set keyed by the listener.  on with a listener
\* already subscribed leaves the listeners and their order as they were; no
\* listener is ever subscribed twice; an emission calls each subscribed
\* listener once; after off the listener is not subscribed at all.
C20_SubscribedOnce ==
    /\ (lastOp.op = "on" /\ lastOp.listener \in Range(lastOp.before)) =>
           events = lastOp.before
    /\ (lastOp.op = "on" /\ lastOp.listener \notin Range(lastOp.before)) =>
           events = Append(lastOp.before, lastOp.listener)
    /\ Cardinality(Range(events)) = Len(events)
    /\ emitted # << >> =>
           \A l \in Listeners : CallsOf(l) = IF l \in Range(events) THEN 1 ELSE 0
    /\ lastOp.op = "off" => lastOp.listener \notin Range(events)

\* on called again for the first of two subscribed listeners
C20_Witness ==
    /\ lastOp.op = "on" /\ lastOp.listener = "l1"
    /\ lastOp.before = << "l1", "l2" >>
    /\ events = << "l1", "l2" >>

====
